---- MODULE Spec2Model ----
(***************************************************************************)
(* Model of the hardware fixture runner (src/src/fixture_runner.cpp):      *)
(* class FixtureRunner (LoadConfig, Start, Run, Stop, HandleActuation,     *)
(* CreateDAGMappings) and main().                                          *)
(*                                                                         *)
(* Threads:                                                                *)
(*   "main" executes main(): LoadConfig, Start, IsRunning, Run, Stop.      *)
(*   "cb"   is the protocol client's thread; after client_->start() it     *)
(*          invokes the serve_actuator callbacks, one at a time, in the    *)
(*          order the commands arrived.                                    *)
(*   "ctl"  is a caller of the public method Stop() while Run() is         *)
(*          looping; it waits at "stop" until it makes the call.           *)
(*          running_ is written only by Start() and Stop(), so             *)
(*          this is the only way Run() can return; main() itself installs  *)
(*          no signal handler.                                             *)
(*                                                                         *)
(* The broker, the resolver, the protocol client and the graph evaluator   *)
(* are external: each of their results is a nondeterministic choice.       *)
(***************************************************************************)
EXTENDS Integers, Sequences, FiniteSets, TLC

(* ------------------------------ bounds --------------------------------- *)
\* actuation commands the broker sends in one run
MaxActuations == 2
\* iterations of the tick loop of Run() that evaluate the graph
MaxTicks == 1
\* outputs the evaluator returns in one run, over all its invocations
MaxOutputs == 2

\* pieces a transform expression of the rewriting inputs is made of
MaxChunks == 2

(* --------------------------- data universe ----------------------------- *)
\* signal paths of the fixtures below; "S" is a sensor that no fixture serves
BasePaths == {"A", "B", "S"}
\* commanded values: the i-th command of a run carries the value i
Values == 1..MaxActuations

\* actuator + ".target"
Target(p) == p \o ".target"

NoMappings == [p \in {} |-> <<>>]

\* A transform expression is a sequence of tokens: "deps[", a quote, a
\* signal path, "]" and other program text.  A path is one token: the
\* patterns searched for enclose the whole path between "deps[" + quote and
\* quote + "]", so a match never begins or ends inside a path.
DoubleQuote == "\""
SingleQuote == "'"
\* the text deps["path"] or deps['path']
Reference(quote, path) == <<"deps[", quote, path, quote, "]">>

\* SignalMapping::transform: a CodeTransform with its expression, or the
\* default alternative
NoTransform == [code |-> FALSE, expression |-> <<>>]
CodeTransform(expression) == [code |-> TRUE, expression |-> expression]

\* SignalMapping::source when it is not set
NoSource == <<>>

\* a mapping as LoadConfig parses it: depends_on and transform.code
ParsedMapping(depends_on, transform) ==
    [depends_on |-> depends_on, transform |-> transform, source |-> NoSource]

\* the transform  delayed(deps["path"], ms)  of the test fixtures
Delayed(path, ms) ==
    CodeTransform(<<"delayed(">> \o Reference(DoubleQuote, path)
                                \o <<", " \o ms \o ")">>)

\* serves / mappings sections of the fixture files that are loaded
MirrorFixture ==
    [serves |-> <<"A">>,
     mappings |-> [p \in {"A"} |-> ParsedMapping(<<"A">>, Delayed("A", "200"))]]
CrossFixture ==
    [serves |-> <<"A", "B">>,
     mappings |-> [p \in {"A", "B"} |->
                     ParsedMapping(<<"A">>,
                         Delayed("A", IF p = "A" THEN "100" ELSE "300"))]]
SensorFixture ==
    [serves |-> <<"A">>,
     mappings |-> [p \in {"B"} |-> ParsedMapping(<<"A", "S">>, NoTransform)]]
\* a fixture that declares a mapping for the ".target" of its actuator
TargetKeyFixture ==
    [serves |-> <<"A">>,
     mappings |-> [p \in {"A.target"} |->
                     ParsedMapping(<<"A">>, Delayed("A", "100"))]]
FixtureContents ==
    {MirrorFixture, CrossFixture, SensorFixture, TargetKeyFixture}

\* what LoadConfig can find at the --config path
FileKinds ==
    {"absent", "directory", "bad_yaml", "no_fixture", "no_serves",
     "no_mappings", "ok"}
Files ==
    {[kind |-> k, serves |-> c.serves, mappings |-> c.mappings] :
        k \in {"no_mappings", "ok"}, c \in FixtureContents}
    \cup
    {[kind |-> k, serves |-> MirrorFixture.serves,
      mappings |-> MirrorFixture.mappings] :
        k \in FileKinds \ {"no_mappings", "ok"}}

EmptyConfig == [serves |-> <<>>, mappings |-> NoMappings]

Range(s) == {s[i] : i \in 1..Len(s)}

(* ------------------------------ state ---------------------------------- *)
VARIABLES
    pc,               \* position of each thread
    brokerSignals,    \* paths the broker's catalogue knows (environment)
    config_,          \* FixtureConfig config_ (serves, mappings)
    loadFailed,       \* LoadConfig logged an error and returned early
    resolver_,        \* resolver_ is set
    client_,          \* "null", "created", "started", "stopped"
    signal_handles_,  \* path -> resolved handle
    served,           \* actuators registered with serve_actuator, in order
    dag_processor_,   \* "null", "created", "initialized"
    dag_mappings,     \* table handed to dag_processor_->initialize
    running_,         \* bool running_
    startError,       \* the step of Start() that logged an error, or "none"
    exitCode,         \* <<>> while main runs, then <<0>> or <<1>>: what main returned
    killed,           \* the process was ended by a termination signal
    stream,           \* commands the client has read and not yet dispatched
    arrived,          \* every command, in the order it arrived at the client
    received,         \* every command HandleActuation was invoked with
    fed,              \* the updates vector of every process_signal_updates
                      \* call made by HandleActuation
    outputs,          \* the local vector outputs of Run and of HandleActuation
    ticks,            \* process_signal_updates calls made by Run
    emitted,          \* outputs the evaluator has returned so far
    stopReturned,     \* a call of Stop() has returned
    publishedAfterStop \* client_->publish was called after that

startVars ==
    <<brokerSignals, config_, loadFailed, resolver_, client_,
      signal_handles_, served, dag_processor_, dag_mappings, startError>>

runVars ==
    <<stream, arrived, received, fed, outputs, ticks, emitted, stopReturned,
      publishedAfterStop>>

vars == <<pc, startVars, running_, exitCode, killed, runVars>>

Threads == {"main", "cb", "ctl"}

\* the handle the resolver returns for a path
Handle(p) == <<"handle", p>>

NoHandles == [p \in {} |-> <<>>]

Init ==
    /\ pc = [t \in Threads |->
                CASE t = "main" -> "load" [] t = "cb" -> "idle" [] OTHER -> "stop"]
    /\ brokerSignals \in {known \cup {"S"} : known \in SUBSET {"A", "B"}}
                          \cup {{"A", "A.target", "S"}}
    /\ config_ = EmptyConfig
    /\ loadFailed = FALSE
    /\ resolver_ = FALSE
    /\ client_ = "null"
    /\ signal_handles_ = NoHandles
    /\ served = <<>>
    /\ dag_processor_ = "null"
    /\ dag_mappings = NoMappings
    /\ running_ = FALSE
    /\ startError = "none"
    /\ exitCode = <<>>
    /\ killed = FALSE
    /\ stream = <<>>
    /\ arrived = <<>>
    /\ received = <<>>
    /\ fed = <<>>
    /\ outputs = [t \in {"main", "cb"} |-> <<>>]
    /\ ticks = 0
    /\ emitted = 0
    /\ stopReturned = FALSE
    /\ publishedAfterStop = FALSE

\* the process exists: main has not returned and no signal has ended it
Alive == exitCode = <<>> /\ ~killed

(* ----------------------------- LoadConfig ------------------------------ *)
\* config_ after LoadConfig(file): every early return leaves what was
\* already stored
LoadedConfig(file) ==
    CASE file.kind \in {"absent", "directory", "bad_yaml", "no_fixture",
                        "no_serves"} -> EmptyConfig
      [] file.kind = "no_mappings" ->
            [serves |-> file.serves, mappings |-> NoMappings]
      [] OTHER -> [serves |-> file.serves, mappings |-> file.mappings]

LoadConfig ==
    /\ Alive
    /\ pc["main"] = "load"
    /\ \E file \in Files :
          /\ config_' = LoadedConfig(file)
          /\ loadFailed' = (file.kind # "ok")
    /\ pc' = [pc EXCEPT !["main"] = "create_resolver"]
    /\ UNCHANGED <<brokerSignals, resolver_, client_, signal_handles_, served,
                   dag_processor_, dag_mappings, running_, startError,
                   exitCode, killed, runVars>>

(* -------------------------- CreateDAGMappings -------------------------- *)
\* faulty variant: ".target" is appended to every dependency
RewriteDependsOnAll(deps, serves) ==
    [i \in 1..Len(deps) |-> Target(deps[i])]

\* depends_on with ".target" appended to every served actuator
RewriteDependsOn(deps, serves) ==
    [i \in 1..Len(deps) |->
        IF deps[i] \in Range(serves) THEN Target(deps[i]) ELSE deps[i]]

\* std::string::find(search, pos): the first position >= pos at which
\* search occurs in code, 0 (npos) if there is none; positions count from 1
Find(code, search, pos) ==
    LET hits == {i \in pos..(Len(code) - Len(search) + 1) :
                    SubSeq(code, i, i + Len(search) - 1) = search}
    IN  IF hits = {} THEN 0
        ELSE CHOOSE i \in hits : \A j \in hits : i <= j

\* the while loop: replace the occurrence found, continue behind the
\* replacement
RECURSIVE ReplaceAll(_, _, _, _)
ReplaceAll(code, search, replace, pos) ==
    LET at == Find(code, search, pos)
    IN  IF at = 0 THEN code
        ELSE ReplaceAll(SubSeq(code, 1, at - 1) \o replace
                            \o SubSeq(code, at + Len(search), Len(code)),
                        search, replace, at + Len(replace))

\* one iteration of the loop over config_.serves: the double-quoted
\* references to the actuator, then the single-quoted ones
ReplaceActuator(code, actuator) ==
    LET double == ReplaceAll(code, Reference(DoubleQuote, actuator),
                             Reference(DoubleQuote, Target(actuator)), 1)
    IN  ReplaceAll(double, Reference(SingleQuote, actuator),
                   Reference(SingleQuote, Target(actuator)), 1)

\* the loop over config_.serves, in the order of the list
RECURSIVE RewriteCode(_, _)
RewriteCode(code, serves) ==
    IF serves = <<>> THEN code
    ELSE RewriteCode(ReplaceActuator(code, Head(serves)), Tail(serves))

\* the transform of dag_mapping: only a CodeTransform is rewritten
RewriteTransform(transform, serves) ==
    IF transform.code
    THEN CodeTransform(RewriteCode(transform.expression, serves))
    ELSE transform

\* dag_mapping for one entry of config_.mappings: a copy with depends_on
\* and transform rewritten
RewriteMapping(mapping, serves) ==
    [mapping EXCEPT
        !.depends_on = RewriteDependsOn(mapping.depends_on, serves),
        !.transform = RewriteTransform(mapping.transform, serves)]

\* faulty variant: the source signal depends on the actuator
TargetMappingComputed(actuator) ==
    [depends_on |-> <<actuator>>, transform |-> NoTransform,
     source |-> <<"actuator", Target(actuator)>>]

\* the ".target" source signal added for a served actuator
TargetMapping(actuator) ==
    [depends_on |-> <<>>, transform |-> NoTransform,
     source |-> <<"actuator", Target(actuator)>>]

\* faulty variant: a source signal is stored for every served actuator
SynthesizedTargetsUnguarded(cfg) ==
    {Target(a) : a \in Range(cfg.serves)}

\* the identifiers that get a synthesized source signal: the ".target" of
\* every served actuator that is not already a key of the table
SynthesizedTargets(cfg) ==
    {Target(a) : a \in Range(cfg.serves)} \ DOMAIN cfg.mappings

\* first loop: the rewritten copy of every mapping; second loop: the source
\* signals, stored under their ".target" key
CreateDAGMappings(cfg) ==
    LET keys == DOMAIN cfg.mappings
        synthesized == SynthesizedTargets(cfg)
    IN  [s \in keys \cup synthesized |->
            IF s \in synthesized
            THEN TargetMapping(CHOOSE a \in Range(cfg.serves) : Target(a) = s)
            ELSE RewriteMapping(cfg.mappings[s], cfg.serves)]

(* -------------------------------- Start -------------------------------- *)
\* faulty variant: only the served actuators are pre-resolved
ServedSignalsOnly(cfg) == Range(cfg.serves)

\* all_signals: the served actuators and the keys of the mappings
AllSignals(cfg) == Range(cfg.serves) \cup DOMAIN cfg.mappings

\* faulty variant: the failure path sets running_ instead of clearing it
StartFailsStillRunning(step) ==
    /\ startError' = step
    /\ running_' = TRUE
    /\ pc' = [pc EXCEPT !["main"] = "check_running"]

\* Start() logs an error, clears running_ and returns to main
StartFails(step) ==
    /\ startError' = step
    /\ running_' = FALSE
    /\ pc' = [pc EXCEPT !["main"] = "check_running"]

CreateResolver ==
    /\ Alive
    /\ pc["main"] = "create_resolver"
    /\ \E ok \in BOOLEAN :
          IF ok
          THEN /\ resolver_' = TRUE
               /\ pc' = [pc EXCEPT !["main"] = "create_client"]
               /\ UNCHANGED <<running_, startError>>
          ELSE /\ StartFails("resolver")
               /\ UNCHANGED resolver_
    /\ UNCHANGED <<brokerSignals, config_, loadFailed, client_,
                   signal_handles_, served, dag_processor_, dag_mappings,
                   exitCode, killed, runVars>>

CreateClient ==
    /\ Alive
    /\ pc["main"] = "create_client"
    /\ \E ok \in BOOLEAN :
          IF ok
          THEN /\ client_' = "created"
               /\ pc' = [pc EXCEPT !["main"] = "resolve"]
               /\ UNCHANGED <<running_, startError>>
          ELSE /\ StartFails("client")
               /\ UNCHANGED client_
    /\ UNCHANGED <<brokerSignals, config_, loadFailed, resolver_,
                   signal_handles_, served, dag_processor_, dag_mappings,
                   exitCode, killed, runVars>>

\* one iteration of the resolution loop; the set is iterated in an
\* unspecified order
ResolveSignal ==
    /\ Alive
    /\ pc["main"] = "resolve"
    /\ \E signal_path \in AllSignals(config_) \ DOMAIN signal_handles_ :
          IF signal_path \in brokerSignals
          THEN /\ signal_handles_' =
                      [p \in DOMAIN signal_handles_ \cup {signal_path} |->
                          Handle(p)]
               /\ UNCHANGED <<pc, running_, startError>>
          ELSE /\ StartFails("resolve")
               /\ UNCHANGED signal_handles_
    /\ UNCHANGED <<brokerSignals, config_, loadFailed, resolver_, client_,
                   served, dag_processor_, dag_mappings, exitCode, killed, runVars>>

\* the served actuators that get registered: the loop stops at the first
\* one without a handle
Registered(serves, handles) ==
    IF \E i \in 1..Len(serves) : serves[i] \notin DOMAIN handles
    THEN SubSeq(serves, 1,
                (CHOOSE i \in 1..Len(serves) :
                    /\ serves[i] \notin DOMAIN handles
                    /\ \A j \in 1..(i - 1) : serves[j] \in DOMAIN handles) - 1)
    ELSE serves

\* faulty variant: registration does not wait for the resolution loop
RegisterActuatorsEarly ==
    /\ Alive
    /\ pc["main"] = "resolve"
    /\ served' = Registered(config_.serves, signal_handles_)
    /\ IF Range(config_.serves) \subseteq DOMAIN signal_handles_
       THEN /\ pc' = [pc EXCEPT !["main"] = "init_dag"]
            /\ UNCHANGED <<running_, startError>>
       ELSE StartFails("register")
    /\ UNCHANGED <<brokerSignals, config_, loadFailed, resolver_, client_,
                   signal_handles_, dag_processor_, dag_mappings, exitCode, killed,
                   runVars>>

\* the resolution loop is over; register the handlers of the served actuators
RegisterActuators ==
    /\ Alive
    /\ pc["main"] = "resolve"
    /\ AllSignals(config_) \subseteq DOMAIN signal_handles_
    /\ served' = Registered(config_.serves, signal_handles_)
    /\ IF Range(config_.serves) \subseteq DOMAIN signal_handles_
       THEN /\ pc' = [pc EXCEPT !["main"] = "init_dag"]
            /\ UNCHANGED <<running_, startError>>
       ELSE StartFails("register")
    /\ UNCHANGED <<brokerSignals, config_, loadFailed, resolver_, client_,
                   signal_handles_, dag_processor_, dag_mappings, exitCode, killed, runVars>>

\* faulty variant: the result of initialize() is not looked at
InitializeDagUnchecked ==
    /\ Alive
    /\ pc["main"] = "init_dag"
    /\ dag_mappings' = CreateDAGMappings(config_)
    /\ \E ok \in BOOLEAN :
          dag_processor_' = IF ok THEN "initialized" ELSE "created"
    /\ pc' = [pc EXCEPT !["main"] = "start_client"]
    /\ UNCHANGED <<running_, startError>>
    /\ UNCHANGED <<brokerSignals, config_, loadFailed, resolver_, client_,
                   signal_handles_, served, exitCode, killed, runVars>>

\* make_unique<SignalProcessorDAG>(), CreateDAGMappings() and initialize()
InitializeDag ==
    /\ Alive
    /\ pc["main"] = "init_dag"
    /\ dag_mappings' = CreateDAGMappings(config_)
    /\ \E ok \in BOOLEAN :
          IF ok
          THEN /\ dag_processor_' = "initialized"
               /\ pc' = [pc EXCEPT !["main"] = "start_client"]
               /\ UNCHANGED <<running_, startError>>
          ELSE /\ dag_processor_' = "created"
               /\ StartFails("dag")
    /\ UNCHANGED <<brokerSignals, config_, loadFailed, resolver_, client_,
                   signal_handles_, served, exitCode, killed, runVars>>

StartClient ==
    /\ Alive
    /\ pc["main"] = "start_client"
    /\ \E ok \in BOOLEAN :
          IF ok
          THEN /\ client_' = "started"
               /\ pc' = [pc EXCEPT !["main"] = "wait_ready"]
               /\ UNCHANGED <<running_, startError>>
          ELSE /\ StartFails("start")
               /\ UNCHANGED client_
    /\ UNCHANGED <<brokerSignals, config_, loadFailed, resolver_,
                   signal_handles_, served, dag_processor_, dag_mappings,
                   exitCode, killed, runVars>>

WaitUntilReady ==
    /\ Alive
    /\ pc["main"] = "wait_ready"
    /\ \E ok \in BOOLEAN :
          IF ok
          THEN /\ running_' = TRUE
               /\ pc' = [pc EXCEPT !["main"] = "check_running"]
               /\ UNCHANGED startError
          ELSE StartFails("ready")
    /\ UNCHANGED <<brokerSignals, config_, loadFailed, resolver_, client_,
                   signal_handles_, served, dag_processor_, dag_mappings,
                   exitCode, killed, runVars>>

(* --------------------------------- main -------------------------------- *)
\* faulty variant: main enters Run() without looking at IsRunning()
CheckRunningIgnored ==
    /\ Alive
    /\ pc["main"] = "check_running"
    /\ pc' = [pc EXCEPT !["main"] = "run_loop"]
    /\ UNCHANGED <<startVars, running_, exitCode, killed, runVars>>

\* if (!runner.IsRunning()) return 1; otherwise Run() is entered
CheckRunning ==
    /\ Alive
    /\ pc["main"] = "check_running"
    /\ IF running_
       THEN /\ pc' = [pc EXCEPT !["main"] = "run_loop"]
            /\ UNCHANGED exitCode
       ELSE /\ pc' = [pc EXCEPT !["main"] = "exited"]
            /\ exitCode' = <<1>>
    /\ UNCHANGED killed
    /\ UNCHANGED <<brokerSignals, config_, loadFailed, resolver_, client_,
                   signal_handles_, served, dag_processor_, dag_mappings,
                   running_, startError, runVars>>

(* ------------------------------ evaluator ------------------------------ *)
\* a VSSSignal: an output path and whether its qualified value is valid
VSSSignals(paths) == [path : paths, valid : BOOLEAN]

\* the order in which the evaluator visits the nodes of its table
NodeOrder == <<"A", "B", "S", "A.target", "B.target", "S.target">>
Rank(p) == CHOOSE i \in 1..Len(NodeOrder) : NodeOrder[i] = p

\* what dag_processor_->process_signal_updates may return: signals of the
\* initialized table, at most one per node, in node order (no more than
\* what is left of the MaxOutputs outputs of the run)
EvalOutputs ==
    LET sigs == VSSSignals(DOMAIN dag_mappings)
    IN  {o \in UNION {[1..n -> sigs] : n \in 0..(MaxOutputs - emitted)} :
            \A i, j \in 1..Len(o) : i < j => Rank(o[i].path) < Rank(o[j].path)}

\* the thread is inside process_signal_updates / inside client_->publish
InEval(t) == pc[t] = "in_eval"
InPublish(t) == pc[t] = "in_publish"

(* ---------------------------- publish loops ---------------------------- *)
\* faulty variant: the validity of the output is not looked at
PublishableAnyValidity(vss_signal) ==
    vss_signal.path \in DOMAIN signal_handles_

\* the output is published: it is valid and its path has a handle
Publishable(vss_signal) ==
    /\ vss_signal.valid
    /\ vss_signal.path \in DOMAIN signal_handles_

\* faulty variant: a valid output without handle gets its handle resolved
\* in the publish loop
PublishNextResolving(t, after) ==
    /\ Alive
    /\ pc[t] = "publish_loop"
    /\ IF outputs[t] = <<>>
       THEN /\ pc' = [pc EXCEPT ![t] = after]
            /\ UNCHANGED <<outputs, publishedAfterStop, signal_handles_>>
       ELSE IF Head(outputs[t]).valid
       THEN /\ pc' = [pc EXCEPT ![t] = "in_publish"]
            /\ publishedAfterStop' = (publishedAfterStop \/ stopReturned)
            /\ signal_handles_' =
                  [p \in DOMAIN signal_handles_ \cup {Head(outputs[t]).path}
                      |-> Handle(p)]
            /\ UNCHANGED outputs
       ELSE /\ outputs' = [outputs EXCEPT ![t] = Tail(@)]
            /\ UNCHANGED <<pc, publishedAfterStop, signal_handles_>>
    /\ UNCHANGED <<brokerSignals, config_, loadFailed, resolver_, client_,
                   served, dag_processor_, dag_mappings, startError, running_,
                   exitCode, killed, stream, arrived, received, fed, ticks,
                   emitted, stopReturned>>

\* one iteration of "for (const auto& vss_signal : outputs)" up to the
\* call of client_->publish, or the end of the loop
PublishNext(t, after) ==
    /\ Alive
    /\ pc[t] = "publish_loop"
    /\ IF outputs[t] = <<>>
       THEN /\ pc' = [pc EXCEPT ![t] = after]
            /\ UNCHANGED <<outputs, publishedAfterStop>>
       ELSE IF Publishable(Head(outputs[t]))
       THEN /\ pc' = [pc EXCEPT ![t] = "in_publish"]
            /\ publishedAfterStop' = (publishedAfterStop \/ stopReturned)
            /\ UNCHANGED outputs
       ELSE /\ outputs' = [outputs EXCEPT ![t] = Tail(@)]
            /\ UNCHANGED <<pc, publishedAfterStop>>
    /\ UNCHANGED <<startVars, running_, exitCode, killed, stream, arrived, received,
                   fed, ticks, emitted, stopReturned>>

\* faulty variant: a failed publish is tried again
PublishFailedRetry(t) ==
    /\ Alive
    /\ pc[t] = "publish_failed"
    /\ pc' = [pc EXCEPT ![t] = "publish_loop"]
    /\ UNCHANGED <<startVars, running_, exitCode, killed, runVars>>

\* faulty variant: a failed publish ends the publish loop
PublishFailedAbort(t) ==
    /\ Alive
    /\ pc[t] = "publish_failed"
    /\ outputs' = [outputs EXCEPT ![t] = <<>>]
    /\ pc' = [pc EXCEPT ![t] = "publish_loop"]
    /\ UNCHANGED <<startVars, running_, exitCode, killed, stream, arrived, received,
                   fed, ticks, emitted, stopReturned, publishedAfterStop>>

\* if (!status.ok()): the failure is logged and the loop goes on with the
\* next output
PublishFailed(t) ==
    /\ Alive
    /\ pc[t] = "publish_failed"
    /\ outputs' = [outputs EXCEPT ![t] = Tail(@)]
    /\ pc' = [pc EXCEPT ![t] = "publish_loop"]
    /\ UNCHANGED <<startVars, running_, exitCode, killed, stream, arrived, received,
                   fed, ticks, emitted, stopReturned, publishedAfterStop>>

\* client_->publish returns its status
PublishReturn(t) ==
    /\ Alive
    /\ pc[t] = "in_publish"
    /\ \E ok \in BOOLEAN :
          IF ok
          THEN /\ outputs' = [outputs EXCEPT ![t] = Tail(@)]
               /\ pc' = [pc EXCEPT ![t] = "publish_loop"]
          ELSE /\ pc' = [pc EXCEPT ![t] = "publish_failed"]
               /\ UNCHANGED outputs
    /\ UNCHANGED <<startVars, running_, exitCode, killed, stream, arrived, received,
                   fed, ticks, emitted, stopReturned, publishedAfterStop>>

(* --------------------------------- Run --------------------------------- *)
RunStates ==
    {"run_loop", "in_eval", "publish_loop", "in_publish", "publish_failed"}

\* faulty variant: the loop tests the flag only after a tick (do ... while)
RunLoopTestAfterTick ==
    /\ Alive
    /\ pc["main"] = "run_loop"
    /\ IF running_ \/ ticks = 0
       THEN /\ ticks < MaxTicks
            /\ ticks' = ticks + 1
            /\ pc' = [pc EXCEPT !["main"] = "in_eval"]
       ELSE /\ pc' = [pc EXCEPT !["main"] = "stop"]
            /\ UNCHANGED ticks
    /\ UNCHANGED <<startVars, running_, exitCode, killed, stream, arrived, received,
                   fed, outputs, emitted, stopReturned, publishedAfterStop>>

\* faulty variant: the tick waits until the client has no command left to
\* deliver
RunLoopAfterBacklog ==
    /\ Alive
    /\ pc["main"] = "run_loop"
    /\ stream = <<>> /\ pc["cb"] = "idle"
    /\ IF running_
       THEN /\ ticks < MaxTicks
            /\ ticks' = ticks + 1
            /\ pc' = [pc EXCEPT !["main"] = "in_eval"]
       ELSE /\ pc' = [pc EXCEPT !["main"] = "stop"]
            /\ UNCHANGED ticks
    /\ UNCHANGED <<startVars, running_, exitCode, killed, stream, arrived, received,
                   fed, outputs, emitted, stopReturned, publishedAfterStop>>

\* while (running_): call process_signal_updates with empty updates, or
\* return from Run()
RunLoop ==
    /\ Alive
    /\ pc["main"] = "run_loop"
    /\ IF running_
       THEN /\ ticks < MaxTicks
            /\ ticks' = ticks + 1
            /\ pc' = [pc EXCEPT !["main"] = "in_eval"]
       ELSE /\ pc' = [pc EXCEPT !["main"] = "stop"]
            /\ UNCHANGED ticks
    /\ UNCHANGED <<startVars, running_, exitCode, killed, stream, arrived, received,
                   fed, outputs, emitted, stopReturned, publishedAfterStop>>

RunEvalReturn ==
    /\ Alive
    /\ pc["main"] = "in_eval"
    /\ \E o \in EvalOutputs :
          /\ outputs' = [outputs EXCEPT !["main"] = o]
          /\ emitted' = emitted + Len(o)
    /\ pc' = [pc EXCEPT !["main"] = "publish_loop"]
    /\ UNCHANGED <<startVars, running_, exitCode, killed, stream, arrived, received,
                   fed, ticks, stopReturned, publishedAfterStop>>

\* the publish loop of Run; after it the thread sleeps for the tick interval
RunPublishNext == PublishNext("main", "run_loop")
RunPublishReturn == PublishReturn("main")
RunPublishFailed == PublishFailed("main")

(* --------------------------- protocol client --------------------------- *)
\* a call of Stop() has cleared running_
ShutdownInitiated ==
    \E t \in {"main", "ctl"} : pc[t] \in {"stop_client", "stop_returned"}

\* the broker sends an actuation command for a registered actuator; late
\* notes that it arrives after running_ was cleared by Stop()
Actuate ==
    /\ Alive
    /\ client_ = "started"
    /\ Len(arrived) < MaxActuations
    /\ \E p \in Range(served) :
          LET cmd == [path |-> p, value |-> Len(arrived) + 1,
                      late |-> ShutdownInitiated]
          IN  /\ stream' = Append(stream, cmd)
              /\ arrived' = Append(arrived, cmd)
    /\ UNCHANGED <<pc, startVars, running_, exitCode, killed, received, fed, outputs,
                   ticks, emitted, stopReturned, publishedAfterStop>>

\* faulty variant: the newest command is dispatched first
CallbackArgNewest(s) == s[Len(s)]

\* the command the client dispatches next to its serve_actuator callback
CallbackArg(s) == Head(s)

(* --------------------------- HandleActuation --------------------------- *)
\* faulty variant: a command for the signal of the previous command is
\* coalesced away
UpdatesForCoalesced(actuator_path, target) ==
    IF received # <<>> /\ received[Len(received)].path = actuator_path
    THEN <<>>
    ELSE <<[path |-> Target(actuator_path), value |-> target,
            quality |-> "VALID"]>>

\* faulty variant: the update is keyed by the actuator path itself
UpdatesForActuatorPath(actuator_path, target) ==
    <<[path |-> actuator_path, value |-> target, quality |-> "VALID"]>>

\* std::vector<SignalUpdate> updates = {update}
UpdatesFor(actuator_path, target) ==
    <<[path |-> Target(actuator_path), value |-> target, quality |-> "VALID"]>>

\* faulty variant: the callback only notes the command and returns
HandleActuationHandOff ==
    /\ Alive
    /\ client_ = "started"
    /\ pc["cb"] = "idle"
    /\ stream # <<>>
    /\ received' = Append(received, CallbackArg(stream))
    /\ stream' = Tail(stream)
    /\ UNCHANGED <<pc, startVars, running_, exitCode, killed, arrived, fed, outputs,
                   ticks, emitted, stopReturned, publishedAfterStop>>

\* the callback is invoked; HandleActuation builds the update and calls
\* process_signal_updates
HandleActuationBegin ==
    /\ Alive
    /\ client_ = "started"
    /\ pc["cb"] = "idle"
    /\ stream # <<>>
    /\ LET cmd == CallbackArg(stream)
       IN  /\ received' = Append(received, cmd)
           /\ fed' = Append(fed, UpdatesFor(cmd.path, cmd.value))
    /\ stream' = Tail(stream)
    /\ pc' = [pc EXCEPT !["cb"] = "in_eval"]
    /\ UNCHANGED <<startVars, running_, exitCode, killed, arrived, outputs, ticks, emitted,
                   stopReturned, publishedAfterStop>>

HandleActuationEvalReturn ==
    /\ Alive
    /\ pc["cb"] = "in_eval"
    /\ \E o \in EvalOutputs :
          /\ outputs' = [outputs EXCEPT !["cb"] = o]
          /\ emitted' = emitted + Len(o)
    /\ pc' = [pc EXCEPT !["cb"] = "publish_loop"]
    /\ UNCHANGED <<startVars, running_, exitCode, killed, stream, arrived, received,
                   fed, ticks, stopReturned, publishedAfterStop>>

\* the publish loop of HandleActuation; after it the callback returns
HandleActuationPublishNext == PublishNext("cb", "idle")
HandleActuationPublishReturn == PublishReturn("cb")
HandleActuationPublishFailed == PublishFailed("cb")

(* --------------------------------- Stop -------------------------------- *)
\* faulty variant: Stop() flips the flag
StopToggleFlag(t) ==
    /\ Alive
    /\ pc[t] = "stop"
    /\ running_' = ~running_
    /\ pc' = [pc EXCEPT ![t] = "stop_client"]
    /\ UNCHANGED <<startVars, exitCode, killed, runVars>>

\* running_ = false
StopClearFlag(t) ==
    /\ Alive
    /\ pc[t] = "stop"
    /\ running_' = FALSE
    /\ pc' = [pc EXCEPT ![t] = "stop_client"]
    /\ UNCHANGED <<startVars, exitCode, killed, runVars>>

\* client_->stop() ends the client's thread (it waits for a callback in
\* progress), then Stop() returns
StopClient(t) ==
    /\ Alive
    /\ pc[t] = "stop_client"
    /\ IF client_ # "null"
       THEN /\ pc["cb"] = "idle"
            /\ client_' = "stopped"
       ELSE UNCHANGED client_
    /\ stopReturned' = TRUE
    /\ pc' = [pc EXCEPT ![t] = "stop_returned"]
    /\ UNCHANGED <<brokerSignals, config_, loadFailed, resolver_,
                   signal_handles_, served, dag_processor_, dag_mappings,
                   startError, running_, exitCode, killed, stream, arrived, received,
                   fed, outputs, ticks, emitted, publishedAfterStop>>

MainStopClearFlag == StopClearFlag("main")
MainStopClient == StopClient("main")
\* Stop() is called from another thread while Run() is looping
CallerStopClearFlag == pc["main"] \in RunStates /\ StopClearFlag("ctl")
CallerStopClient == StopClient("ctl")

\* runner.Stop() returned: return 0
MainReturn ==
    /\ Alive
    /\ pc["main"] = "stop_returned"
    /\ exitCode' = <<0>>
    /\ pc' = [pc EXCEPT !["main"] = "exited"]
    /\ UNCHANGED killed
    /\ UNCHANGED <<startVars, running_, runVars>>

(* --------------------------- termination signal ------------------------ *)
\* SIGTERM arrives while Run() is looping (in its sleep between two ticks,
\* where the loop spends its time); main installs no handler, so the default
\* action ends the process at once
TermSignal ==
    /\ Alive
    /\ pc["main"] = "run_loop"
    /\ killed' = TRUE
    /\ UNCHANGED <<pc, startVars, running_, exitCode, runVars>>

Next ==
    \/ LoadConfig
    \/ CreateResolver
    \/ CreateClient
    \/ ResolveSignal
    \/ RegisterActuators
    \/ InitializeDag
    \/ StartClient
    \/ WaitUntilReady
    \/ CheckRunning
    \/ RunLoop
    \/ RunEvalReturn
    \/ RunPublishNext
    \/ RunPublishReturn
    \/ RunPublishFailed
    \/ Actuate
    \/ HandleActuationBegin
    \/ HandleActuationEvalReturn
    \/ HandleActuationPublishNext
    \/ HandleActuationPublishReturn
    \/ HandleActuationPublishFailed
    \/ CallerStopClearFlag
    \/ CallerStopClient
    \/ MainStopClearFlag
    \/ MainStopClient
    \/ MainReturn
    \/ TermSignal

(* ------------------------------ properties ----------------------------- *)
\* the signals the loaded fixture declares: served paths and mapping outputs
DeclaredSignals == Range(config_.serves) \cup DOMAIN config_.mappings

\* every path the fixture or the rewritten table refers to
ReferencedSignals ==
    DeclaredSignals
    \cup UNION {Range(config_.mappings[s].depends_on) :
                    s \in DOMAIN config_.mappings}
    \cup DOMAIN dag_mappings
    \cup UNION {Range(dag_mappings[s].depends_on) : s \in DOMAIN dag_mappings}

\* a declared signal is unknown to the broker
Unresolved == \E p \in DeclaredSignals : p \notin brokerSignals

\* main has called Run()
RunEntered ==
    \/ pc["main"] \in RunStates \cup {"stop", "stop_client", "stop_returned"}
    \/ exitCode = <<0>>

\* C1: when a declared signal (a served path or a mapping output) fails
\* resolution, running_ stays false, Run() is never entered and the only
\* exit code is 1.
C1_ResolutionAtomicity ==
    Unresolved =>
        /\ ~running_
        /\ ~RunEntered
        /\ exitCode \in {<<>>, <<1>>}

C1_Witness ==
    /\ Unresolved
    /\ startError = "resolve"
    /\ exitCode = <<1>>

\* C2: when LoadConfig fails (file absent, a directory, a YAML error, or a
\* missing fixture / serves / mappings section) the process never runs and
\* exits with code 1.
C2_LoadFailureIsFatal ==
    loadFailed =>
        /\ ~running_
        /\ ~RunEntered
        /\ exitCode \in {<<>>, <<1>>}

\* C3 as stated: while running_, every path referenced by serves or by a
\* mapping, as output or as dependency, and every identifier of the rewritten
\* table has a resolved handle.
C3_AllReferencedResolved ==
    running_ => ReferencedSignals \subseteq DOMAIN signal_handles_

\* C3 amended: while running_, every served path and every mapping output has
\* the handle resolved for it.
C3_DeclaredResolved ==
    running_ =>
        \A p \in DeclaredSignals :
            /\ p \in DOMAIN signal_handles_
            /\ signal_handles_[p] = Handle(p)

C3_Witness ==
    /\ running_
    /\ DOMAIN config_.mappings \ Range(config_.serves) # {}
    /\ ReferencedSignals \ DeclaredSignals # {}

\* the later steps of Start() that a failing step leaves undone
LaterStepsNotExecuted ==
    /\ startError = "resolver" =>
          /\ ~resolver_
          /\ client_ = "null"
    /\ startError \in {"resolver", "client"} =>
          /\ client_ = "null"
          /\ signal_handles_ = NoHandles
          /\ served = <<>>
          /\ dag_processor_ = "null"
    /\ startError = "dag" =>
          /\ dag_processor_ # "initialized"
          /\ client_ = "created"
    /\ startError = "start" => client_ = "created"

\* C4: a failure of resolver creation, client creation, evaluator
\* initialization, client start or the readiness wait leaves running_ false,
\* executes no later step of Start() and makes main return 1; main returns 0
\* only after Run() returned and Stop() was called.
C4_StartupFailure ==
    /\ startError \in {"resolver", "client", "dag", "start", "ready"} =>
          /\ ~running_
          /\ ~RunEntered
          /\ exitCode \in {<<>>, <<1>>}
          /\ LaterStepsNotExecuted
    /\ exitCode = <<0>> =>
          /\ startError = "none"
          /\ pc["main"] = "exited"
          /\ stopReturned
          /\ ~running_

C4_Witness ==
    /\ startError = "ready"
    /\ client_ = "started"
    /\ exitCode = <<1>>

\* C5: when a signal fails to resolve, no actuator has been registered, the
\* evaluator is not created and the client is not started; an actuator is
\* registered only when every declared signal has its handle.
C5_AllOrNothing ==
    /\ startError = "resolve" =>
          /\ served = <<>>
          /\ dag_processor_ = "null"
          /\ client_ = "created"
    /\ served # <<>> => DeclaredSignals \subseteq DOMAIN signal_handles_

C5_Witness ==
    /\ startError = "resolve"
    /\ signal_handles_ # NoHandles
    /\ exitCode = <<1>>

\* C6 as stated: the callback thread never evaluates the graph and never
\* calls publish.
C6_CallbackOnlyHandsOff == ~(InEval("cb") \/ InPublish("cb"))

\* C6 amended: the callback processes its command itself: the evaluator is
\* invoked with the update in the step that invokes the callback, and the
\* callback returns only when its publish loop has gone through every output.
C6_CallbackRunsInline ==
    /\ Len(fed) = Len(received)
    /\ pc["cb"] = "idle" => outputs["cb"] = <<>>
    /\ outputs["cb"] # <<>>
          => pc["cb"] \in {"publish_loop", "in_publish", "publish_failed"}

C6_Witness ==
    /\ InPublish("cb")
    /\ Len(received) = 1

\* C7: at most one thread is inside process_signal_updates or
\* client_->publish.
C7_EvaluatorSequential ==
    ~(/\ InEval("main") \/ InPublish("main")
      /\ InEval("cb") \/ InPublish("cb"))

C9_NoDropNoCoalescing ==
    running_ =>
        /\ Len(fed) = Len(received)
        /\ \A i \in 1..Len(received) :
              /\ Len(fed[i]) = 1
              /\ fed[i][1].path = Target(received[i].path)
              /\ fed[i][1].value = received[i].value

C9_Witness ==
    /\ running_
    /\ Len(fed) = 2
    /\ received[1].path = received[2].path
    /\ received[1].value # received[2].value

\* C10: once a call of Stop() has returned, client_->publish is not called
\* any more.
C10_NoPublishAfterStop == ~publishedAfterStop

\* C11: a termination signal received while the fixture is running ends the
\* process only through the ordinary path: running_ cleared, client stopped,
\* exit code 0.
C11_OrdinaryShutdown ==
    killed =>
        /\ ~running_
        /\ client_ = "stopped"
        /\ exitCode = <<0>>

\* C12: a command that arrives after running_ was cleared by Stop() causes
\* no evaluator invocation (and so no publish).
C12_LateActuationIsNoOp ==
    \A i \in 1..Len(fed) : i <= Len(received) => ~received[i].late

(* ------------------- CreateDAGMappings on its inputs ------------------- *)
\* serves lists, among them lists that hold a path and its ".target"
RewriteServes ==
    {<<>>, <<"A">>, <<"A", "B">>, <<"A", "A.target">>, <<"A.target", "A">>}

RewriteDeps ==
    {<<>>, <<"A">>, <<"A", "S">>, <<"S", "A">>, <<"A", "A">>, <<"B", "A">>,
     <<"A.target">>}

\* pieces of transform text: references in both quoting conventions, a
\* reference with mismatched quotes, other text
RewriteChunks ==
    {Reference(DoubleQuote, "A"), Reference(SingleQuote, "A"),
     Reference(DoubleQuote, "A.target"), Reference(DoubleQuote, "B"),
     Reference(DoubleQuote, "S"),
     <<"deps[", DoubleQuote, "A", SingleQuote, "]">>, <<" + ">>}

RECURSIVE Texts(_)
Texts(n) ==
    IF n = 0 THEN {<<>>}
    ELSE LET shorter == Texts(n - 1)
         IN  shorter \cup {t \o c : t \in shorter, c \in RewriteChunks}

RewriteTransforms ==
    {NoTransform} \cup {CodeTransform(t) : t \in Texts(MaxChunks)}

\* mapping tables as LoadConfig builds them
RewriteTables ==
    {[s \in keys |-> ParsedMapping(d, t)] :
        keys \in {{}, {"A"}, {"B"}, {"A.target"}, {"A", "A.target"}},
        d \in RewriteDeps, t \in RewriteTransforms}

InitRewrite ==
    /\ pc = [t \in Threads |-> IF t = "main" THEN "rewrite" ELSE "idle"]
    /\ brokerSignals = BasePaths
    /\ config_ \in [serves : RewriteServes, mappings : RewriteTables]
    /\ loadFailed = FALSE
    /\ resolver_ = FALSE
    /\ client_ = "null"
    /\ signal_handles_ = NoHandles
    /\ served = <<>>
    /\ dag_processor_ = "null"
    /\ dag_mappings = NoMappings
    /\ running_ = FALSE
    /\ startError = "none"
    /\ exitCode = <<>>
    /\ killed = FALSE
    /\ stream = <<>>
    /\ arrived = <<>>
    /\ received = <<>>
    /\ fed = <<>>
    /\ outputs = [t \in {"main", "cb"} |-> <<>>]
    /\ ticks = 0
    /\ emitted = 0
    /\ stopReturned = FALSE
    /\ publishedAfterStop = FALSE

\* CreateDAGMappings() is called on config_
Rewrite ==
    /\ pc["main"] = "rewrite"
    /\ dag_mappings' = CreateDAGMappings(config_)
    /\ pc' = [pc EXCEPT !["main"] = "rewritten"]
    /\ UNCHANGED <<brokerSignals, config_, loadFailed, resolver_, client_,
                   signal_handles_, served, dag_processor_, running_,
                   startError, exitCode, killed, runVars>>

\* CreateDAGMappings() is called again, with the same serves list, on the
\* table it returned
RewriteAgain ==
    /\ pc["main"] = "rewritten"
    /\ config_' = [config_ EXCEPT !.mappings = dag_mappings]
    /\ dag_mappings' = CreateDAGMappings(config_')
    /\ pc' = [pc EXCEPT !["main"] = "rewritten_twice"]
    /\ UNCHANGED <<brokerSignals, loadFailed, resolver_, client_,
                   signal_handles_, served, dag_processor_, running_,
                   startError, exitCode, killed, runVars>>

NextRewrite ==
    \/ Rewrite
    \/ RewriteAgain

\* dag_mappings holds what CreateDAGMappings() returned for config_
Rewritten ==
    \/ dag_processor_ # "null"
    \/ pc["main"] \in {"rewritten", "rewritten_twice"}

\* C13: for every mapping the rewritten depends_on list has the length and
\* order of the raw one; an entry that is a served path P became P.target,
\* every other entry is unchanged.
C13_DependencyRewriting ==
    Rewritten =>
        \A s \in DOMAIN config_.mappings :
            /\ s \in DOMAIN dag_mappings
            /\ LET raw == config_.mappings[s].depends_on
                   new == dag_mappings[s].depends_on
               IN  /\ Len(new) = Len(raw)
                   /\ \A i \in 1..Len(raw) :
                         /\ raw[i] \in Range(config_.serves)
                                => new[i] = Target(raw[i])
                         /\ raw[i] \notin Range(config_.serves)
                                => new[i] = raw[i]

\* a served and a non-served dependency were rewritten in one list
C13_Witness ==
    /\ pc["main"] = "rewritten"
    /\ \E s \in DOMAIN config_.mappings :
          /\ config_.mappings[s].depends_on = <<"S", "A">>
          /\ "A" \in Range(config_.serves)
          /\ dag_mappings[s].depends_on = <<"S", "A.target">>

\* the mappings of config_ whose transform is code
CodeMappings ==
    {s \in DOMAIN config_.mappings : config_.mappings[s].transform.code}
\* the transform text of a mapping before and after rewriting
RawCode(s) == config_.mappings[s].transform.expression
NewCode(s) == dag_mappings[s].transform.expression

\* C14: for every served path P, every occurrence of deps["P"] and of
\* deps['P'] in a transform text is replaced by the same-quoted reference
\* to P.target, and no reference to P in either quoting remains.
C14_TransformRewriting ==
    Rewritten =>
        \A s \in CodeMappings, P \in Range(config_.serves),
           quote \in {DoubleQuote, SingleQuote} :
            /\ \A i \in 1..(Len(RawCode(s)) - 4) :
                  SubSeq(RawCode(s), i, i + 4) = Reference(quote, P)
                      => SubSeq(NewCode(s), i, i + 4)
                             = Reference(quote, Target(P))
            /\ Find(NewCode(s), Reference(quote, P), 1) = 0

\* C15: each reference of a transform text is substituted at most once by
\* one rewriting pass, whatever the serves list: a path of the rewritten
\* text is the raw path or the raw path with one ".target" appended.
C15_NoDoubleSuffix ==
    Rewritten =>
        \A s \in CodeMappings :
            /\ Len(NewCode(s)) = Len(RawCode(s))
            /\ \A i \in 1..Len(RawCode(s)) :
                  NewCode(s)[i] \in {RawCode(s)[i], Target(RawCode(s)[i])}

\* C16: rewriting an already rewritten table again, with the same serves
\* list, yields the same table.
C16_Idempotent ==
    pc["main"] = "rewritten_twice" => dag_mappings = config_.mappings

\* the entry is marked as an external input (source is set)
IsInputNode(mapping) == mapping.source # NoSource
\* the entry is computed: it has dependencies or a code transform
IsComputed(mapping) == mapping.depends_on # <<>> \/ mapping.transform.code

\* C17 as stated: for every served path P, whatever the raw table, the
\* rewritten table has an entry keyed P.target without dependencies and
\* without transform.
C17_InputNodeForEveryServed ==
    Rewritten =>
        \A P \in Range(config_.serves) :
            /\ Target(P) \in DOMAIN dag_mappings
            /\ ~IsComputed(dag_mappings[Target(P)])

\* C17: for every served path P the rewritten table has an entry keyed
\* P.target.  If the raw table declares no mapping keyed P.target, it is the
\* synthesized input node (source set, no dependencies, no transform);
\* otherwise it is the rewritten declared mapping and no input node is added.
C17_InputNodeUnlessDeclared ==
    Rewritten =>
        \A P \in Range(config_.serves) :
            /\ Target(P) \in DOMAIN dag_mappings
            /\ Target(P) \notin DOMAIN config_.mappings
                  => /\ IsInputNode(dag_mappings[Target(P)])
                     /\ ~IsComputed(dag_mappings[Target(P)])
            /\ Target(P) \in DOMAIN config_.mappings
                  => LET raw == config_.mappings[Target(P)]
                         new == dag_mappings[Target(P)]
                     IN  /\ new.source = raw.source
                         /\ Len(new.depends_on) = Len(raw.depends_on)
                         /\ new.transform.code = raw.transform.code

\* the raw table declares a computed mapping keyed A.target while A is served
C17_Witness ==
    /\ pc["main"] = "rewritten"
    /\ "A" \in Range(config_.serves)
    /\ "A.target" \in DOMAIN config_.mappings
    /\ IsComputed(config_.mappings["A.target"])
    /\ IsComputed(dag_mappings["A.target"])

\* C18: no entry of the table CreateDAGMappings returns is both computed and
\* an external-input node.
C18_ComputedOrInput ==
    Rewritten =>
        \A s \in DOMAIN dag_mappings :
            ~(IsComputed(dag_mappings[s]) /\ IsInputNode(dag_mappings[s]))

\* the table holds a computed mapping and a synthesized input node
C18_Witness ==
    /\ pc["main"] = "rewritten"
    /\ \E s \in DOMAIN dag_mappings : IsComputed(dag_mappings[s])
    /\ \E s \in DOMAIN dag_mappings : IsInputNode(dag_mappings[s])

\* steps of the callback thread: HandleActuation is entered for the command
\* the callback received, its publish loop skips an output without
\* publishing it, HandleActuation returns
HandlingBegins == pc["cb"] = "idle" /\ pc'["cb"] = "in_eval"
OutputSkipped ==
    /\ pc["cb"] = "publish_loop"
    /\ pc'["cb"] = "publish_loop"
    /\ outputs'["cb"] # outputs["cb"]
HandlingCompletes == pc["cb"] = "publish_loop" /\ pc'["cb"] = "idle"

\* the actuation is fed as exactly one update keyed P.target carrying the
\* commanded value with VALID quality
FedAsOneTargetUpdate ==
    LET cmd == received'[Len(received')]
    IN  fed' = Append(fed, <<[path |-> Target(cmd.path), value |-> cmd.value,
                              quality |-> "VALID"]>>)

\* C19 as stated: an actuation of P with value v is fed as one VALID update
\* keyed P.target, and every valid output returned for it is published
\* before the handling completes: no valid output is skipped, and the
\* handling ends only when no output is left.
C19_EveryValidOutputPublished ==
    [][/\ HandlingBegins => FedAsOneTargetUpdate
       /\ OutputSkipped => ~Head(outputs["cb"]).valid
       /\ HandlingCompletes => outputs["cb"] = <<>>]_vars

\* C19: an actuation of P with value v is fed as one VALID update keyed
\* P.target, and every valid output whose path has a resolved handle is
\* published before the handling completes: only an invalid output or an
\* output without handle is skipped.
C19_ValidOutputWithHandlePublished ==
    [][/\ HandlingBegins => FedAsOneTargetUpdate
       /\ OutputSkipped =>
             \/ ~Head(outputs["cb"]).valid
             \/ Head(outputs["cb"]).path \notin DOMAIN signal_handles_
       /\ HandlingCompletes => outputs["cb"] = <<>>]_vars

\* the callback is publishing a valid output of the actuation it was fed
C19_Witness ==
    /\ pc["cb"] = "in_publish"
    /\ Head(outputs["cb"]).valid
    /\ fed[Len(fed)] = <<[path |-> Target(received[Len(received)].path),
                          value |-> received[Len(received)].value,
                          quality |-> "VALID"]>>

\* C20: an output whose validity flag is false is never inside
\* client_->publish, in the callback or in the tick loop, and no output
\* outlives the publish loop it was returned for.
C20_InvalidNeverPublished ==
    \A t \in {"main", "cb"} :
        /\ InPublish(t) => Head(outputs[t]).valid
        /\ pc[t] \notin {"publish_loop", "in_publish", "publish_failed"}
              => outputs[t] = <<>>

\* a publish loop is at an invalid output whose path has a handle
C20_Witness ==
    \E t \in {"main", "cb"} :
        /\ pc[t] = "publish_loop"
        /\ outputs[t] # <<>>
        /\ ~Head(outputs[t]).valid
        /\ Head(outputs[t]).path \in DOMAIN signal_handles_

\* thread t takes a step
Steps(t) == pc'[t] # pc[t]

\* C21: after client_->publish returned an error the thread goes on with the
\* remaining outputs of the batch (the next publishable one is published),
\* the failure changes neither running_ nor the client nor the exit code,
\* and at the end of the batch the tick loop or the callback thread is back
\* where it takes the next tick or the next actuation.
C21_FailedPublishRecoverable ==
    [][\A t \in {"main", "cb"} :
          /\ pc[t] = "publish_failed" /\ Steps(t)
                => /\ pc'[t] = "publish_loop"
                   /\ outputs'[t] = Tail(outputs[t])
                   /\ running_' = running_
                   /\ client_' = client_
                   /\ exitCode' = exitCode
          /\ pc[t] = "publish_loop" /\ Steps(t)
                => IF outputs[t] = <<>>
                   THEN pc'[t] = (IF t = "main" THEN "run_loop" ELSE "idle")
                   ELSE Publishable(Head(outputs[t])) => pc'[t] = "in_publish"]_vars

\* a publish failed while the batch holds another publishable output
C21_Witness ==
    \E t \in {"main", "cb"} :
        /\ pc[t] = "publish_failed"
        /\ running_
        /\ Len(outputs[t]) = 2
        /\ Publishable(outputs[t][2])

\* C22: a publish call is made from the publish loop for the first output
\* left; when the call has returned, with or without error, that output is
\* removed before the loop goes on; outputs are only ever removed from a
\* batch, and a new batch is stored only when the previous one is used up.
C22_AtMostOncePerOutput ==
    [][\A t \in {"main", "cb"} :
          /\ pc'[t] = "in_publish" /\ Steps(t)
                => pc[t] = "publish_loop" /\ outputs'[t] = outputs[t]
          /\ pc[t] \in {"in_publish", "publish_failed"}
                /\ pc'[t] = "publish_loop"
                => outputs'[t] = Tail(outputs[t])
          /\ outputs'[t] # outputs[t]
                => \/ outputs[t] # <<>> /\ outputs'[t] = Tail(outputs[t])
                   \/ pc[t] = "in_eval" /\ outputs[t] = <<>>]_vars

\* a publish call for a valid output has failed
C22_Witness ==
    \E t \in {"main", "cb"} :
        /\ pc[t] = "publish_failed"
        /\ Head(outputs[t]).valid
        /\ emitted > 0

\* the steps of Run() on the main thread
RunStep ==
    \/ RunLoop
    \/ RunEvalReturn
    \/ RunPublishNext
    \/ RunPublishReturn
    \/ RunPublishFailed

\* Run() has made n ticks and is still to loop
TickDue(n) ==
    /\ Alive
    /\ running_
    /\ pc["main"] \in RunStates
    /\ ticks = n

SecondStopStep(t) ==
    /\ stopReturned
    /\ pc[t] \in {"stop", "stop_client"}
    /\ Steps(t)

\* C27: a second call of Stop() leaves the state as the first call left it
\* (running_ false, client stopped), and none of its statements invokes the
\* evaluator, publishes or touches a batch of outputs.
C27_StopIdempotent ==
    [][\A t \in {"main", "ctl"} :
          SecondStopStep(t)
              => /\ ~running_'
                 /\ client_ = "stopped" /\ client_' = "stopped"
                 /\ fed' = fed /\ outputs' = outputs /\ emitted' = emitted
                 /\ \A u \in {"main", "cb"} :
                       /\ InEval(u)' => InEval(u)
                       /\ InPublish(u)' => InPublish(u)]_vars

\* Stop() was called twice and both calls have returned
C27_Witness ==
    /\ pc["ctl"] = "stop_returned"
    /\ pc["main"] \in {"stop_returned", "exited"}
    /\ ~running_
    /\ client_ = "stopped"

\* Start() has returned true
StartSucceeded ==
    /\ startError = "none"
    /\ pc["main"] \notin {"load", "create_resolver", "create_client", "resolve",
                          "init_dag", "start_client", "wait_ready"}

\* C28: after a successful Start() no step changes signal_handles_ or config_
\* (serves and raw mappings) and no step calls the resolver; the step that
\* calls CreateDAGMappings leaves both unchanged as well.
C28_ReadOnlyAfterStart ==
    [][/\ StartSucceeded
           => /\ signal_handles_' = signal_handles_
              /\ config_' = config_
              /\ resolver_' = resolver_
              /\ pc'["main"] # "resolve"
       /\ pc["main"] = "init_dag" /\ Steps("main")
           => signal_handles_' = signal_handles_ /\ config_' = config_]_vars

\* after a successful Start() a tick was made and the callback is publishing
C28_Witness ==
    /\ StartSucceeded
    /\ ticks > 0
    /\ InPublish("cb")
    /\ DOMAIN signal_handles_ = Range(config_.serves) \cup DOMAIN config_.mappings

\* Run() is executing and running_ has been cleared
RunAfterClear == pc["main"] \in RunStates /\ ~running_

\* C29: once running_ is false while Run() executes, Run() starts no tick
\* and no evaluator invocation any more, running_ stays false, the loop test
\* leaves the loop, and Run() does return.
C29_TickLoopStops ==
    /\ [][RunAfterClear
             => /\ ticks' = ticks
                /\ InEval("main")' => InEval("main")
                /\ ~running_'
                /\ pc["main"] = "run_loop" /\ Steps("main")
                      => pc'["main"] = "stop"]_vars
    /\ (RunAfterClear ~> (pc["main"] \notin RunStates \/ ~Alive))

\* Stop() cleared the flag during an iteration and Run() has returned
C29_Witness ==
    /\ pc["main"] = "stop"
    /\ ~running_
    /\ ticks = MaxTicks
    /\ Alive

\* *handle_it->second of the publish call thread t is in
PublishHandle(t) == signal_handles_[Head(outputs[t]).path]

\* the commanded identifiers P.target of the served paths
CommandedIdentifiers == {Target(P) : P \in Range(config_.serves)}

\* C30 as stated: every publish call uses the handle resolved for the
\* output's own path, and no value is published under P.target of a served
\* path P.
C30_NeverUnderTarget ==
    \A t \in {"main", "cb"} :
        InPublish(t) =>
            /\ Head(outputs[t]).path \in DOMAIN signal_handles_
            /\ PublishHandle(t) = Handle(Head(outputs[t]).path)
            /\ Head(outputs[t]).path \notin CommandedIdentifiers

\* C31: no publish call occurs before running_ has become true; a process
\* whose Start() fails never publishes, the window between client_->start()
\* and the end of wait_until_ready included.
C31_NoPublishBeforeRunning ==
    \A t \in {"main", "cb"} : InPublish(t) => StartSucceeded

\* C32: whenever the evaluator is invoked, from a callback or from a tick, it
\* has been created and successfully initialized with the rewritten mapping
\* table; the handlers are registered before the evaluator exists, and the
\* client, which delivers the callbacks, is started only after the
\* initialization succeeded.
C32_EvaluatorInitializedWhenInvoked ==
    /\ \A t \in {"main", "cb"} :
          InEval(t) => /\ dag_processor_ = "initialized"
                       /\ dag_mappings = CreateDAGMappings(config_)
    /\ dag_processor_ # "null" => served = config_.serves
    /\ client_ = "started" => dag_processor_ = "initialized"

\* a callback is inside the evaluator while Start() still waits for the
\* client to become ready
C32_Witness ==
    /\ InEval("cb")
    /\ pc["main"] = "wait_ready"
    /\ served # <<>>

Spec == Init /\ [][Next]_vars

\* the broker's catalogue holds the actuator A and the sensor S
InitLive == Init /\ brokerSignals = {"A", "S"}

\* the main thread is scheduled; nothing is assumed about the other threads
SpecLive == InitLive /\ [][Next]_vars /\ WF_vars(RunStep)

SpecRewrite == InitRewrite /\ [][NextRewrite]_vars
====
